---- MODULE Spec2Model ----
(***************************************************************************)
(* Model of ETL.py: the resumable, quota-bounded OMDb enrichment loop, the *)
(* progress.json checkpoint, the fuzzy_matches.json log and the load of    *)
(* the movie table.  Strings are tuples of one-character strings.          *)
(***************************************************************************)
EXTENDS Integers, Sequences, FiniteSets, TLC

(* ------------------------------ bounds -------------------------------- *)

\* Number of rows of movies.csv.
NumMovies == 3

\* ETL.py sets MAX_REQUESTS_PER_DAY = 1000; the model runs the same loop
\* with a scaled-down ceiling so that exhaustion happens within NumMovies rows.
MAX_REQUESTS_PER_DAY == 2

(* ------------------------------ strings ------------------------------- *)

None == "None"

\* the year of a title without one (Python's None); a parsed year is never empty
NoYear == << >>

Rows == 0 .. (NumMovies - 1)

Max2(a, b) == IF a >= b THEN a ELSE b

\* c in s
Contains(s, c) == \E k \in 1 .. Len(s) : s[k] = c

\* Python slice s[lo:hi] with 0-based, already clamped bounds
Slice(s, lo, hi) == IF hi <= lo THEN << >> ELSE SubSeq(s, lo + 1, hi)

\* s[-5:] and s[-5:-1]
Last5(s) == Slice(s, Max2(Len(s) - 5, 0), Len(s))
Last5But1(s) == Slice(s, Max2(Len(s) - 5, 0), Max2(Len(s) - 1, 0))

IsSpace(c) == c = " "

RECURSIVE LStrip(_)
LStrip(s) == IF s # << >> /\ IsSpace(Head(s)) THEN LStrip(Tail(s)) ELSE s

RECURSIVE RStrip(_)
RStrip(s) ==
  IF s # << >> /\ IsSpace(s[Len(s)]) THEN RStrip(SubSeq(s, 1, Len(s) - 1)) ELSE s

\* str.strip()
Strip(s) == LStrip(RStrip(s))

\* index (1-based) of the last occurrence of c in s, 0 when absent
LastIndexOf(s, c) ==
  IF Contains(s, c)
    THEN CHOOSE k \in 1 .. Len(s) :
           s[k] = c /\ \A m \in (k + 1) .. Len(s) : s[m] # c
    ELSE 0

\* s.rsplit(c, 1)[0]
RSplitHead(s, c) ==
  IF Contains(s, c) THEN SubSeq(s, 1, LastIndexOf(s, c) - 1) ELSE s

\* extract_title_year(full_title): <<title, year>>
extract_title_year(full_title) ==
  IF Contains(full_title, "(") /\ Contains(Last5(full_title), ")")
    THEN << Strip(RSplitHead(full_title, "(")), Last5But1(full_title) >>
    ELSE << full_title, NoYear >>

\* str.lower() on the characters of the model's alphabet
LowerChar(c) ==
  CASE c = "U" -> "u"
    [] c = "C" -> "c"
    [] c = "P" -> "p"
    [] OTHER -> c

Lower(s) == [k \in 1 .. Len(s) |-> LowerChar(s[k])]

Punct == {",", "'", ":", "-", "."}

IsKept(c) == c \notin Punct

\* variant of clean: the hyphen is not removed
cleanKeepsHyphen(t) == Strip(SelectSeq(Lower(t), LAMBDA c : c \notin Punct \ {"-"}))

\* clean(t) of the title-only branch
clean(t) == Strip(SelectSeq(Lower(t), IsKept))

(* ------------------- difflib.SequenceMatcher.ratio -------------------- *)

\* length of the common run of a from i and b from j (0-based, half-open)
RECURSIVE RunLen(_, _, _, _, _, _)
RunLen(a, b, i, j, ahi, bhi) ==
  IF i < ahi /\ j < bhi /\ a[i + 1] = b[j + 1]
    THEN 1 + RunLen(a, b, i + 1, j + 1, ahi, bhi)
    ELSE 0

\* (i, j, k) comes before (i2, j2, k2): a longer block, then a lower i,
\* then a lower j
Before(p, q) ==
  \/ p[3] > q[3]
  \/ p[3] = q[3] /\ (p[1] < q[1] \/ (p[1] = q[1] /\ p[2] <= q[2]))

\* SequenceMatcher.find_longest_match without junk: <<i, j, k>> with k
\* maximal, then i minimal, then j minimal; <<alo, blo, 0>> when nothing
\* matches
find_longest_match(a, b, alo, ahi, blo, bhi) ==
  IF alo >= ahi \/ blo >= bhi
    THEN << alo, blo, 0 >>
    ELSE CHOOSE p \in {<< i, j, RunLen(a, b, i, j, ahi, bhi) >> :
                         i \in alo .. (ahi - 1), j \in blo .. (bhi - 1)} :
           \A i2 \in alo .. (ahi - 1), j2 \in blo .. (bhi - 1) :
             Before(p, << i2, j2, RunLen(a, b, i2, j2, ahi, bhi) >>)

\* sum of the sizes of get_matching_blocks()
RECURSIVE Matches(_, _, _, _, _, _)
RECURSIVE MatchesAround(_, _, _, _, _, _, _)
MatchesAround(a, b, alo, ahi, blo, bhi, m) ==
  IF m[3] = 0
    THEN 0
    ELSE m[3]
         + (IF alo < m[1] /\ blo < m[2]
              THEN Matches(a, b, alo, m[1], blo, m[2])
              ELSE 0)
         + (IF m[1] + m[3] < ahi /\ m[2] + m[3] < bhi
              THEN Matches(a, b, m[1] + m[3], ahi, m[2] + m[3], bhi)
              ELSE 0)

Matches(a, b, alo, ahi, blo, bhi) ==
  CHOOSE n \in {MatchesAround(a, b, alo, ahi, blo, bhi, m) :
                  m \in {find_longest_match(a, b, alo, ahi, blo, bhi)}} : TRUE

\* SequenceMatcher(None, a, b).ratio() as the fraction <<numerator, denominator>>
Ratio(a, b) ==
  IF Len(a) + Len(b) = 0
    THEN << 1, 1 >>
    ELSE << 2 * Matches(a, b, 0, Len(a), 0, Len(b)), Len(a) + Len(b) >>

\* the same, with both strings evaluated once
ratio(a, b) == CHOOSE r \in {Ratio(x, y) : x \in {a}, y \in {b}} : TRUE

\* x > y on fractions
Greater(x, y) == x[1] * y[2] > y[1] * x[2]

\* variant of MaxFrom: a later candidate of the same score replaces the best
RECURSIVE MaxFromLast(_, _, _, _)
MaxFromLast(title, cands, best, k) ==
  IF k > Len(cands)
    THEN best
    ELSE IF Greater(ratio(title, best.Title), ratio(title, cands[k].Title))
           THEN MaxFromLast(title, cands, best, k + 1)
           ELSE MaxFromLast(title, cands, cands[k], k + 1)

\* max(cands, key=lambda m: ratio(title, m["Title"])): the first maximal one
RECURSIVE MaxFrom(_, _, _, _)
MaxFrom(title, cands, best, k) ==
  IF k > Len(cands)
    THEN best
    ELSE IF Greater(ratio(title, cands[k].Title), ratio(title, best.Title))
           THEN MaxFrom(title, cands, cands[k], k + 1)
           ELSE MaxFrom(title, cands, best, k + 1)

BestCandidate(title, cands) == MaxFrom(title, cands, cands[1], 2)

(* --------------------- the catalog and the service -------------------- *)

Up == << "U", "p" >>
Cup == << "C", "u", "p" >>

\* titles of movies.csv: "Up (2009)" and "Up."
RawTitles ==
  { << "U", "p", " ", "(", "2", "0", "0", "9", ")" >>, << "U", "p", "." >> }

\* titles of movies.csv that the parsing and the comparison treat in their
\* own way: "Up - (2009)" and "Up (2009) "
WideTitles ==
  RawTitles \cup
    { << "U", "p", " ", "-", " ", "(", "2", "0", "0", "9", ")" >>,
      << "U", "p", " ", "(", "2", "0", "0", "9", ")", " " >> }

\* r.json() of a "t" query that found a movie
UpMovie ==
  [Response |-> "True", Title |-> Up, Year |-> "2009",
   Director |-> "Pete Docter", Plot |-> "balloons", BoxOffice |-> "$293M"]
CupMovie ==
  [Response |-> "True", Title |-> Cup, Year |-> "2011",
   Director |-> "Khyentse Norbu", Plot |-> "football", BoxOffice |-> "N/A"]

\* r.json() of a query that found nothing
NotFound == [Response |-> "False"]

\* r.json() of an "s" query that found candidates
CupUpSearch ==
  [Response |-> "True",
   Search |-> << [Title |-> Cup, Year |-> "2011"], [Title |-> Up, Year |-> "2009"] >>]

\* r.json() of an "s" query with two candidates of the same title
CupUpUpSearch ==
  [Response |-> "True",
   Search |-> << [Title |-> Cup, Year |-> "2011"], [Title |-> Up, Year |-> "2009"],
                 [Title |-> Up, Year |-> "2016"] >>]

\* the answers OMDb may give to a request
Answers(key) ==
  IF key.q = "t"
    THEN {NotFound, UpMovie, CupMovie}
    ELSE {NotFound, CupUpSearch, CupUpUpSearch}

AllAnswers == {NotFound, UpMovie, CupMovie, CupUpSearch, CupUpUpSearch}

\* the request a session.get sends, which is also its cache key: requests
\* drops a parameter whose value is None, so the exact query of a title
\* without a year is the title-only request
Request(q, title, year) == [q |-> q, title |-> title, y |-> year]

ExactRequest(full_title) ==
  Request("t", extract_title_year(full_title)[1], extract_title_year(full_title)[2])
TitleRequest(full_title) == Request("t", extract_title_year(full_title)[1], NoYear)
SearchRequest(full_title) == Request("s", extract_title_year(full_title)[1], NoYear)

(* ------------------------------- state -------------------------------- *)

VARIABLES
  csv,            \* the title column of movies.csv, by row index
  movies,         \* the in-memory frame: title, Director, Plot, BoxOffice
  progress,       \* progress.json
  fuzzy_file,     \* fuzzy_matches.json
  cache,          \* omdb_cache: request -> cached r.json()
  db,             \* the movie table
  pc,             \* position of the script; "idle" when no run is going
  index,          \* loop variable; NumMovies once the range is exhausted
  requests_used,
  fuzzy_log,
  calls,          \* history: the lookups answered in this run
  failed,         \* history: the row of a transport failure not yet retried
  exit,           \* history: how the last run ended
  processed,      \* history: rows whose cascade finished in some run
  logged          \* history: entries logged by runs that ended normally

vars ==
  << csv, movies, progress, fuzzy_file, cache, db, pc, index, requests_used,
     fuzzy_log, calls, failed, exit, processed, logged >>

durable == << csv, progress, fuzzy_file, cache, db >>
memory == << movies, index, requests_used, fuzzy_log >>

NoFields == [Director |-> None, Plot |-> None, BoxOffice |-> None]

Fields(data) ==
  [Director |-> data.Director, Plot |-> data.Plot, BoxOffice |-> data.BoxOffice]

\* everything but the catalog, before the first run
InitRest ==
  /\ movies = [i \in Rows |-> NoFields]
  /\ progress = [exists |-> FALSE, last_index |-> 0]
  /\ fuzzy_file = [exists |-> FALSE, entries |-> << >>]
  /\ cache = << >>
  /\ db = [i \in Rows |-> [present |-> FALSE, fields |-> NoFields]]
  /\ pc = "idle"
  /\ index = 0
  /\ requests_used = 0
  /\ fuzzy_log = << >>
  /\ calls = << >>
  /\ failed = {}
  /\ exit = "none"
  /\ processed = {}
  /\ logged = {}

Init == csv \in [Rows -> RawTitles] /\ InitRest

\* the same with a catalog that repeats one of the wider titles
InitTitles ==
  /\ \E t \in WideTitles : csv = [i \in Rows |-> t]
  /\ InitRest

(* ------------------------------ helpers ------------------------------- *)

\* start_index as read from progress.json
StartIndex == IF progress.exists THEN progress.last_index ELSE 0

\* variant of Exhausted: the comparison is > instead of >=
ExhaustedLate == requests_used > MAX_REQUESTS_PER_DAY

\* requests_used >= MAX_REQUESTS_PER_DAY
Exhausted == requests_used >= MAX_REQUESTS_PER_DAY

\* variant of Cost: the from_cache flag is ignored
CostAlways(live) == 1

\* if not getattr(r, "from_cache", False): requests_used += 1
Cost(live) == IF live THEN 1 ELSE 0

\* variant of CacheStore: the answer is not kept
CacheStoreNothing(key, data) == cache

\* omdb_cache after a live request was answered (expire_after=None)
CacheStore(key, data) == (key :> data) @@ cache

\* session.get(...).json(): a cached request is answered from omdb_cache,
\* any other one goes to OMDb and its answer is cached
session_get(key, data, live) ==
  IF key \in DOMAIN cache
    THEN /\ data = cache[key]
         /\ live = FALSE
         /\ cache' = cache
    ELSE /\ data \in Answers(key)
         /\ live = TRUE
         /\ cache' = CacheStore(key, data)

\* Path(PROGRESS_FILE).write_text(json.dumps({"last_index": index}))
WriteProgress(i) == [exists |-> TRUE, last_index |-> i]

Title(i) == extract_title_year(csv[i])[1]

\* the entry of the title-mismatch branch
MismatchEntry(title, data) ==
  [CSVTitle |-> title, Suggested |-> data.Title, Year |-> data.Year,
   Score |-> ratio(Lower(title), Lower(data.Title))]

\* the entry of the fuzzy branch
FuzzyEntry(title, data) ==
  LET best == BestCandidate(title, data.Search)
  IN  [CSVTitle |-> title, Suggested |-> best.Title, Year |-> best.Year,
       Score |-> ratio(title, best.Title)]

\* history record of one answered lookup; loglen is len(fuzzy_log) once the
\* branch taken on the answer has run
Call(shape, data, live) ==
  [row |-> index, shape |-> shape, live |-> live,
   found |-> data.Response = "True", loglen |-> Len(fuzzy_log')]

(* ------------------------------ actions ------------------------------- *)

\* the script starts: frame read, enrichment columns set to None, resume
StartRun ==
  /\ pc = "idle"
  /\ movies' = [i \in Rows |-> NoFields]
  /\ index' = StartIndex
  /\ requests_used' = 0
  /\ fuzzy_log' = << >>
  /\ pc' = "loop"
  /\ calls' = << >>
  /\ UNCHANGED << durable, failed, exit, processed, logged >>

\* range(start_index, len(movies)) is exhausted
LoopExit ==
  /\ pc = "loop"
  /\ index >= NumMovies
  /\ pc' = "flush"
  /\ UNCHANGED << durable, memory, calls, failed, exit, processed, logged >>

\* the daily limit check breaks out of the loop
DailyLimit ==
  /\ pc = "loop"
  /\ index < NumMovies
  /\ Exhausted
  /\ pc' = "flush"
  /\ UNCHANGED << durable, memory, calls, failed, exit, processed, logged >>

\* variant of ExactFound: the continue is missing, so the script falls
\* through to the title-only query
ExactFoundNoContinue(data) ==
  /\ movies' = [movies EXCEPT ![index] = Fields(data)]
  /\ pc' = "title_only"
  /\ UNCHANGED << index, processed >>

\* the exact query found the movie: fields assigned, continue
ExactFound(data) ==
  /\ movies' = [movies EXCEPT ![index] = Fields(data)]
  /\ index' = index + 1
  /\ pc' = "loop"
  /\ processed' = processed \cup {index}

\* exact match (title + year)
Exact ==
  /\ pc = "loop"
  /\ index < NumMovies
  /\ ~Exhausted
  /\ \E data \in AllAnswers, live \in BOOLEAN :
       /\ session_get(ExactRequest(csv[index]), data, live)
       /\ requests_used' = requests_used + Cost(live)
       /\ IF data.Response = "True"
            THEN ExactFound(data)
            ELSE /\ pc' = "title_only"
                 /\ UNCHANGED << movies, index, processed >>
       /\ UNCHANGED fuzzy_log
       /\ calls' = Append(calls, Call("exact", data, live))
  /\ failed' = failed \ {index}
  /\ UNCHANGED << csv, progress, fuzzy_file, db, exit, logged >>

\* variant of TitleMismatch: after the entry is logged the script goes on to
\* the fuzzy search
TitleMismatchThenSearch(data) ==
  /\ fuzzy_log' = Append(fuzzy_log, MismatchEntry(Title(index), data))
  /\ pc' = "fuzzy"
  /\ UNCHANGED << movies, index, processed, progress >>

\* variant of TitleMismatch: the fields of the other title are assigned too
TitleMismatchAssigns(data) ==
  /\ fuzzy_log' = Append(fuzzy_log, MismatchEntry(Title(index), data))
  /\ progress' = WriteProgress(index)
  /\ index' = index + 1
  /\ pc' = "loop"
  /\ processed' = processed \cup {index}
  /\ movies' = [movies EXCEPT ![index] = Fields(data)]

\* the title-only query found another title: logged, checkpoint written
TitleMismatch(data) ==
  /\ fuzzy_log' = Append(fuzzy_log, MismatchEntry(Title(index), data))
  /\ progress' = WriteProgress(index)
  /\ index' = index + 1
  /\ pc' = "loop"
  /\ processed' = processed \cup {index}
  /\ UNCHANGED movies

\* title-only fallback
TitleOnly ==
  /\ pc = "title_only"
  /\ \E data \in AllAnswers, live \in BOOLEAN :
       /\ session_get(TitleRequest(csv[index]), data, live)
       /\ requests_used' = requests_used + Cost(live)
       /\ IF data.Response = "True"
            THEN IF clean(data.Title) = clean(Title(index))
                   THEN /\ movies' = [movies EXCEPT ![index] = Fields(data)]
                        /\ index' = index + 1
                        /\ pc' = "loop"
                        /\ processed' = processed \cup {index}
                        /\ UNCHANGED << fuzzy_log, progress >>
                   ELSE TitleMismatch(data)
            ELSE /\ pc' = "fuzzy"
                 /\ UNCHANGED << movies, index, processed, fuzzy_log, progress >>
       /\ calls' = Append(calls, Call("title", data, live))
  /\ UNCHANGED << csv, fuzzy_file, db, failed, exit, logged >>

\* variant of LogSearch: the entry is appended twice
LogSearchTwice(data) ==
  IF data.Response = "True"
    THEN Append(Append(fuzzy_log, FuzzyEntry(Title(index), data)),
                FuzzyEntry(Title(index), data))
    ELSE fuzzy_log

\* fuzzy_log after the answer of the fuzzy search
LogSearch(data) ==
  IF data.Response = "True"
    THEN Append(fuzzy_log, FuzzyEntry(Title(index), data))
    ELSE fuzzy_log

\* fuzzy search
Fuzzy ==
  /\ pc = "fuzzy"
  /\ \E data \in AllAnswers, live \in BOOLEAN :
       /\ session_get(SearchRequest(csv[index]), data, live)
       /\ requests_used' = requests_used + Cost(live)
       /\ fuzzy_log' = LogSearch(data)
       /\ calls' = Append(calls, Call("search", data, live))
  /\ progress' = WriteProgress(index)
  /\ index' = index + 1
  /\ pc' = "loop"
  /\ processed' = processed \cup {index}
  /\ UNCHANGED << csv, fuzzy_file, db, movies, failed, exit, logged >>

\* the request the script is about to send
PendingRequest ==
  CASE pc = "loop" -> ExactRequest(csv[index])
    [] pc = "title_only" -> TitleRequest(csv[index])
    [] pc = "fuzzy" -> SearchRequest(csv[index])

\* variant of TransportError: the exception is swallowed and the row is
\* skipped like an unresolved one
TransportErrorSkipsRow ==
  /\ \/ pc = "loop" /\ index < NumMovies /\ ~Exhausted
     \/ pc \in {"title_only", "fuzzy"}
  /\ PendingRequest \notin DOMAIN cache
  /\ progress' = WriteProgress(index)
  /\ index' = index + 1
  /\ pc' = "loop"
  /\ exit' = "error"
  /\ failed' = {index}
  /\ UNCHANGED << csv, fuzzy_file, cache, db, movies, requests_used, fuzzy_log,
                  calls, processed, logged >>

\* session.get raises (timeout, connection error, retries exhausted): the
\* exception is not caught and the script ends there
TransportError ==
  /\ \/ pc = "loop" /\ index < NumMovies /\ ~Exhausted
     \/ pc \in {"title_only", "fuzzy"}
  /\ PendingRequest \notin DOMAIN cache
  /\ pc' = "idle"
  /\ exit' = "error"
  /\ failed' = {index}
  /\ UNCHANGED << durable, memory, calls, processed, logged >>

\* variant of FlushLog: fuzzy_matches.json is written whatever fuzzy_log holds
FlushLogAlways ==
  /\ pc = "flush"
  /\ fuzzy_file' = [exists |-> TRUE, entries |-> fuzzy_log]
  /\ logged' = logged \cup {fuzzy_log[k] : k \in 1 .. Len(fuzzy_log)}
  /\ pc' = "load"
  /\ UNCHANGED << csv, progress, cache, db, memory, calls, failed, exit, processed >>

\* fuzzy_matches.json is written when the run logged something
FlushLog ==
  /\ pc = "flush"
  /\ fuzzy_file' =
       IF fuzzy_log # << >>
         THEN [exists |-> TRUE, entries |-> fuzzy_log]
         ELSE fuzzy_file
  /\ logged' = logged \cup {fuzzy_log[k] : k \in 1 .. Len(fuzzy_log)}
  /\ pc' = "load"
  /\ UNCHANGED << csv, progress, cache, db, memory, calls, failed, exit, processed >>

\* INSERT INTO movie ... ON CONFLICT (movie_id) DO NOTHING
InsertMovies ==
  [i \in Rows |->
     IF db[i].present THEN db[i] ELSE [present |-> TRUE, fields |-> movies[i]]]

\* load phase; the script ends
Load ==
  /\ pc = "load"
  /\ db' = InsertMovies
  /\ pc' = "idle"
  /\ exit' = "normal"
  /\ UNCHANGED << csv, progress, fuzzy_file, cache, memory, calls, failed,
                  processed, logged >>

Lookup == Exact \/ TitleOnly \/ Fuzzy

NextLive == StartRun \/ LoopExit \/ DailyLimit \/ Lookup \/ FlushLog \/ Load

Next == NextLive \/ TransportError

Spec == Init /\ [][Next]_vars

\* the script over the catalogs of the wider titles
SpecTitles == InitTitles /\ [][Next]_vars

\* the script is run again and again and no request fails
SpecLive == Init /\ [][NextLive]_vars /\ WF_vars(NextLive)

(* ------------------------------- claims ------------------------------- *)

Running == pc # "idle"

\* the rows of the lookups answered so far in this run
CalledRows == {calls[k].row : k \in 1 .. Len(calls)}

\* C1: a run begins at the row after the persisted checkpoint index
\* (last_index + 1), and at row 0 when there is no checkpoint file.
C1_ResumesAfterCheckpoint ==
  (pc = "loop" /\ calls = << >>) =>
    index = IF progress.exists THEN progress.last_index + 1 ELSE 0

\* C2: once the cascade of row i has finished in a run, whatever its
\* outcome, the persisted checkpoint equals i before any lookup for row
\* i+1 is issued.
C2_CheckpointAfterEveryRow ==
  (Running /\ calls # << >> /\ index > calls[1].row) =>
    (progress.exists /\ progress.last_index = index - 1)

\* C3: in every reachable state of a run the count of live calls used is
\* at most the ceiling.
C3_BudgetCeiling == requests_used <= MAX_REQUESTS_PER_DAY

\* C4: when requests_used >= ceiling at the start of a row, the loop ends
\* without a lookup for that row, without a change to the frame, the log or
\* the files, and without a checkpoint for that row, which stays ahead of
\* the checkpoint for the next run.
C4_BreakStep ==
  (pc = "loop" /\ index < NumMovies /\ requests_used >= MAX_REQUESTS_PER_DAY) =>
    /\ pc' = "flush"
    /\ UNCHANGED << movies, fuzzy_log, fuzzy_file, progress, cache, calls,
                    requests_used, index >>

C4_RowLeft ==
  (pc \in {"flush", "load"} /\ index < NumMovies) =>
    /\ index \notin CalledRows
    /\ movies[index] = NoFields
    /\ progress.exists => progress.last_index < index

C4_StopAtRowBoundary == [][C4_BreakStep]_vars /\ []C4_RowLeft

C4_Witness ==
  pc = "flush" /\ index < NumMovies /\ requests_used >= MAX_REQUESTS_PER_DAY

\* C5: within a run requests_used starts at 0, never decreases, grows by
\* exactly 1 with each lookup answered live and stays the same with each
\* lookup answered from the cache, for the three query shapes.
LiveCalls == Cardinality({k \in 1 .. Len(calls) : calls[k].live})

C5_LookupStep ==
  IF Len(calls') = Len(calls) + 1
    THEN requests_used' =
           requests_used + (IF DOMAIN cache' = DOMAIN cache THEN 0 ELSE 1)
    ELSE IF pc = "idle" /\ pc' # "idle"
           THEN requests_used' = 0
           ELSE requests_used' = requests_used

C5_BudgetAccounting ==
  [][C5_LookupStep]_vars /\ [](Running => requests_used = LiveCalls)

C5_Witness ==
  /\ Running
  /\ \A sh \in {"exact", "title", "search"} :
       /\ \E k \in 1 .. Len(calls) : calls[k].shape = sh /\ calls[k].live
       /\ \E k \in 1 .. Len(calls) : calls[k].shape = sh /\ ~calls[k].live

\* C6: when the exact query of a row returns Found, the row is Resolved
\* with director, plot and boxOffice of that exact response, nothing is
\* logged for it and neither the title-only query nor the fuzzy search is
\* issued for it.
C6_CascadePrecedence ==
  \A k \in 1 .. Len(calls) :
    (calls[k].shape = "exact" /\ calls[k].found) =>
      LET i == calls[k].row
      IN  /\ movies[i] = Fields(cache[ExactRequest(csv[i])])
          /\ \A m \in 1 .. Len(calls) : calls[m].row = i => m = k
          /\ calls[k].loglen = IF k = 1 THEN 0 ELSE calls[k - 1].loglen

C6_Witness ==
  /\ Running
  /\ Len(calls) >= 4
  /\ calls[3].shape = "exact" /\ calls[3].found /\ calls[3].live
  /\ calls[2].loglen = 1
  /\ calls[4].row = calls[3].row + 1

\* the outcome of the cascade on row i for the answers held in the cache:
\* what one pass over the whole catalog gives the row
OnePass(i) ==
  LET e == cache[ExactRequest(csv[i])]
      t == cache[TitleRequest(csv[i])]
      f == cache[SearchRequest(csv[i])]
  IN  IF e.Response = "True"
        THEN [fields |-> Fields(e), log |-> {}]
        ELSE IF t.Response = "True"
               THEN IF clean(t.Title) = clean(Title(i))
                      THEN [fields |-> Fields(t), log |-> {}]
                      ELSE [fields |-> NoFields,
                            log |-> {MismatchEntry(Title(i), t)}]
               ELSE IF f.Response = "True"
                      THEN [fields |-> NoFields, log |-> {FuzzyEntry(Title(i), f)}]
                      ELSE [fields |-> NoFields, log |-> {}]

\* the entries of fuzzy_matches.json, as a set
FileEntries ==
  IF fuzzy_file.exists
    THEN {fuzzy_file.entries[k] : k \in 1 .. Len(fuzzy_file.entries)}
    ELSE {}

\* C7: when the passes have reached the end of the catalog, the enriched
\* catalog and the set of ambiguity-log entries are those of a single pass
\* over the whole catalog with the same answers.
C7_ResumeIdempotent ==
  (pc = "idle" /\ exit = "normal" /\ index = NumMovies) =>
    /\ \A i \in Rows : movies[i] = OnePass(i).fields
    /\ FileEntries = UNION {OnePass(i).log : i \in Rows}

\* C8: a transport error at row i ends the run at once with no further
\* lookup, leaves the checkpoint below i, and the next run walks up to row
\* i and issues its lookups again before it can end.
C8_FailureStep ==
  (failed' # failed /\ failed' # {}) =>
    /\ failed' = {index}
    /\ pc' = "idle"
    /\ UNCHANGED << calls, progress, movies, fuzzy_log, fuzzy_file, cache >>

C8_Pending ==
  \A i \in failed :
    /\ progress.exists => progress.last_index < i
    /\ pc \in {"idle", "loop", "title_only", "fuzzy"}
    /\ pc = "idle" => exit = "error"
    /\ Running => (index <= i /\ requests_used = 0)

C8_TransportFailure == [][C8_FailureStep]_vars /\ []C8_Pending

C8_Witness ==
  /\ pc = "loop"
  /\ index \in failed
  /\ progress.exists
  /\ calls # << >>

\* C9: after runs that ended normally, fuzzy_matches.json holds every
\* entry that any of those runs logged.
C9_LogComplete == (pc = "idle" /\ exit = "normal") => logged \subseteq FileEntries

\* C10: with a persistent cache, no transport error and the script run
\* again and again, eventually the last row is processed, and whenever the
\* last row has been processed every row has been through the cascade.
C10_Convergence ==
  /\ <>[](processed = Rows)
  /\ [](((NumMovies - 1) \in processed) => processed = Rows)

C10_Witness ==
  /\ processed = Rows
  /\ pc = "flush"
  /\ index = NumMovies
  /\ calls # << >>
  /\ calls[1].row > 0

(* ----------------------- claims on the cascade ------------------------ *)

\* len(fuzzy_log) before the k-th lookup of the run acted
PrevLogLen(k) == IF k = 1 THEN 0 ELSE calls[k - 1].loglen

\* a title lower-cased and without the characters , ' : - .
Normalized(t) == SelectSeq(Lower(t), IsKept)

\* the same, then without leading and trailing whitespace
NormalizedTrimmed(t) == Strip(Normalized(t))

\* the row of the k-th lookup is Resolved with the title-only response
TitleResolved(k) ==
  /\ movies[calls[k].row] = Fields(cache[TitleRequest(csv[calls[k].row])])
  /\ calls[k].loglen = PrevLogLen(k)

\* the row of the k-th lookup is MismatchLogged: one entry, fields null
TitleMismatchLogged(k) ==
  /\ movies[calls[k].row] = NoFields
  /\ calls[k].loglen = PrevLogLen(k) + 1
  /\ fuzzy_log[calls[k].loglen].CSVTitle = Title(calls[k].row)
  /\ fuzzy_log[calls[k].loglen].Suggested =
       cache[TitleRequest(csv[calls[k].row])].Title

\* C11 as stated: when the exact query is NotFound and the title-only
\* query returns Found, the row is Resolved exactly when the returned title
\* and the catalog title are equal after lower-casing and removing the
\* characters , ' : - . and is MismatchLogged with one entry and null
\* fields otherwise.
C11_AsStated ==
  \A k \in 1 .. Len(calls) :
    (calls[k].shape = "title" /\ calls[k].found) =>
      IF Normalized(cache[TitleRequest(csv[calls[k].row])].Title)
           = Normalized(Title(calls[k].row))
        THEN TitleResolved(k)
        ELSE TitleMismatchLogged(k)

\* C11: when the exact query is NotFound and the title-only query returns
\* Found, the row is Resolved (fields filled, no log entry) exactly when the
\* returned title and the catalog title are equal after lower-casing,
\* removing the characters , ' : - . and then trimming leading and trailing
\* whitespace; otherwise it is MismatchLogged with exactly one log entry and
\* its enrichment fields stay null.
C11_TitleOnlyClassification ==
  \A k \in 1 .. Len(calls) :
    (calls[k].shape = "title" /\ calls[k].found) =>
      /\ k > 1
      /\ calls[k - 1].row = calls[k].row
      /\ calls[k - 1].shape = "exact" /\ ~calls[k - 1].found
      /\ IF NormalizedTrimmed(cache[TitleRequest(csv[calls[k].row])].Title)
              = NormalizedTrimmed(Title(calls[k].row))
            THEN TitleResolved(k)
            ELSE TitleMismatchLogged(k)

\* the title-only answer of row 0 matches only once the hyphen is removed
\* and the blank before it trimmed, and the row is Resolved
C11_Witness ==
  /\ Len(calls) >= 2
  /\ calls[2].shape = "title" /\ calls[2].found /\ calls[2].live
  /\ Normalized(cache[TitleRequest(csv[0])].Title) # Normalized(Title(0))
  /\ TitleResolved(2)
  /\ index > calls[2].row

\* the entry e is candidate j of cands, with its similarity to title
IsCandidate(e, title, cands, j) ==
  /\ e.Suggested = cands[j].Title
  /\ e.Year = cands[j].Year
  /\ e.Score = ratio(title, cands[j].Title)

\* no candidate is more similar to title than candidate j, and every
\* candidate listed before j is less similar
FirstMaximal(title, cands, j) ==
  /\ \A m \in 1 .. Len(cands) :
       ~Greater(ratio(title, cands[m].Title), ratio(title, cands[j].Title))
  /\ \A m \in 1 .. (j - 1) :
       Greater(ratio(title, cands[j].Title), ratio(title, cands[m].Title))

\* C12: when the fuzzy search returns a non-empty candidate list, the
\* logged suggestion is a candidate whose similarity to the catalog title is
\* the maximum over all candidates, the first listed one when several reach
\* the maximum, and the logged score is that candidate's similarity.
C12_FuzzySelection ==
  \A k \in 1 .. Len(calls) :
    (calls[k].shape = "search" /\ calls[k].found) =>
      /\ calls[k].loglen = PrevLogLen(k) + 1
      /\ fuzzy_log[calls[k].loglen].CSVTitle = Title(calls[k].row)
      /\ \E j \in 1 .. Len(cache[SearchRequest(csv[calls[k].row])].Search) :
           /\ IsCandidate(fuzzy_log[calls[k].loglen], Title(calls[k].row),
                          cache[SearchRequest(csv[calls[k].row])].Search, j)
           /\ FirstMaximal(Title(calls[k].row),
                           cache[SearchRequest(csv[calls[k].row])].Search, j)

\* a search answered with two candidates of the maximal similarity, the
\* first of which was logged
C12_Witness ==
  /\ Len(calls) >= 3
  /\ calls[3].shape = "search" /\ calls[3].found
  /\ cache[SearchRequest(csv[calls[3].row])] = CupUpUpSearch
  /\ fuzzy_log[calls[3].loglen].Year = "2009"
  /\ fuzzy_log[calls[3].loglen].Score = ratio(Title(calls[3].row), Up)

\* the lookups of row i answered so far in this run
CallsOf(i) == {k \in 1 .. Len(calls) : calls[k].row = i}

\* the k-th lookup directly follows a lookup of the same row with the given
\* shape that returned NotFound
FollowsNotFound(k, shape) ==
  /\ k > 1
  /\ calls[k - 1].row = calls[k].row
  /\ calls[k - 1].shape = shape
  /\ ~calls[k - 1].found

\* C13: for every row the lookups are issued in the order exact, title-only,
\* fuzzy; title-only only after exact returned NotFound, fuzzy only after
\* title-only returned NotFound (never after a title mismatch), so a row has
\* at most 3 lookups and at most 3 live calls.
C13_CascadeOrder ==
  /\ \A k \in 1 .. Len(calls) :
       CASE calls[k].shape = "exact" -> \A m \in CallsOf(calls[k].row) : m >= k
         [] calls[k].shape = "title" -> FollowsNotFound(k, "exact")
         [] calls[k].shape = "search" -> FollowsNotFound(k, "title")
  /\ \A i \in Rows : Cardinality(CallsOf(i)) <= 3
  /\ \A k \in 1 .. Len(calls) :
       (k > 1 /\ calls[k - 1].found) => calls[k].row > calls[k - 1].row

\* a row that took the three lookups, all of them live
C13_Witness ==
  /\ pc = "loop"
  /\ Len(calls) >= 3
  /\ CallsOf(calls[Len(calls)].row) = {Len(calls) - 2, Len(calls) - 1, Len(calls)}
  /\ \A k \in CallsOf(calls[Len(calls)].row) : calls[k].live
  /\ calls[Len(calls)].shape = "search"

\* the rows whose cascade finished in this run
Finished == {i \in CalledRows : i < index}

\* the last lookup of row i in this run
LastCall(i) == calls[CHOOSE k \in CallsOf(i) : \A m \in CallsOf(i) : m <= k]

\* the number of entries row i added to fuzzy_log in this run
EntriesOf(i) ==
  LastCall(i).loglen - PrevLogLen(CHOOSE k \in CallsOf(i) : \A m \in CallsOf(i) : k <= m)

\* the four outcomes of a finished row
Resolved(i) ==
  /\ LastCall(i).found
  /\ LastCall(i).shape \in {"exact", "title"}
  /\ movies[i] # NoFields
MismatchLogged(i) ==
  /\ LastCall(i).found
  /\ LastCall(i).shape = "title"
  /\ movies[i] = NoFields
FuzzyLogged(i) == LastCall(i).found /\ LastCall(i).shape = "search"
Unresolved(i) == ~LastCall(i).found /\ LastCall(i).shape = "search"

Outcomes(i) ==
  {o \in {"Resolved", "MismatchLogged", "FuzzyLogged", "Unresolved"} :
     CASE o = "Resolved" -> Resolved(i)
       [] o = "MismatchLogged" -> MismatchLogged(i)
       [] o = "FuzzyLogged" -> FuzzyLogged(i)
       [] o = "Unresolved" -> Unresolved(i)}

\* C14: every row whose cascade finishes in a run ends in exactly one of
\* Resolved, MismatchLogged, FuzzyLogged and Unresolved, and adds exactly one
\* entry to the ambiguity log of the run when MismatchLogged or FuzzyLogged
\* and none when Resolved or Unresolved.
C14_OneOutcomePerRow ==
  \A i \in Finished :
    /\ Cardinality(Outcomes(i)) = 1
    /\ EntriesOf(i) =
         IF MismatchLogged(i) \/ FuzzyLogged(i) THEN 1 ELSE 0
    /\ Len(fuzzy_log) =
         Cardinality({j \in Finished : MismatchLogged(j) \/ FuzzyLogged(j)})

\* a run that finished a MismatchLogged row and a FuzzyLogged row
C14_Witness ==
  /\ \E i \in Finished : MismatchLogged(i)
  /\ \E i \in Finished : FuzzyLogged(i)
  /\ Len(fuzzy_log) = 2

\* every lookup the cascade would issue for row i is held in omdb_cache
FullyCached(i) ==
  /\ ExactRequest(csv[i]) \in DOMAIN cache
  /\ \/ cache[ExactRequest(csv[i])].Response = "True"
     \/ /\ TitleRequest(csv[i]) \in DOMAIN cache
        /\ \/ cache[TitleRequest(csv[i])].Response = "True"
           \/ SearchRequest(csv[i]) \in DOMAIN cache

\* C15: when the budget is exhausted, a row whose lookups would all be
\* answered from the cache is still processed and its cached result
\* applied: the loop does not end at such a row.
C15_CachedAfterExhaustion ==
  (pc \in {"flush", "load"} /\ index < NumMovies) => ~FullyCached(index)

\* a step that writes fuzzy_matches.json is the step after the row loop, of
\* a run that logged something, and writes the whole log of the run; the
\* loop is left once per run; a run that ends on an error writes nothing,
\* and the next run starts from an empty log
C16_FlushStep ==
  /\ fuzzy_file' # fuzzy_file =>
       /\ pc = "flush" /\ pc' = "load"
       /\ fuzzy_log # << >>
       /\ fuzzy_file' = [exists |-> TRUE, entries |-> fuzzy_log]
  /\ (pc = "flush" /\ pc' # pc /\ fuzzy_log # << >>) => fuzzy_file'.entries = fuzzy_log
  /\ pc' = "flush" => pc \in {"loop", "flush"}
  /\ pc = "load" => pc' \in {"load", "idle"}
  /\ (pc # "idle" /\ pc' = "idle" /\ exit' = "error") => fuzzy_file' = fuzzy_file
  /\ (pc = "idle" /\ pc' # "idle") => fuzzy_log' = << >>

\* fuzzy_log holds the entries of the run in the order of the rows
C16_RowOrder ==
  /\ \A k \in 1 .. Len(calls) :
       /\ calls[k].loglen \in {PrevLogLen(k), PrevLogLen(k) + 1}
       /\ k > 1 => calls[k].row >= calls[k - 1].row
       /\ calls[k].loglen = PrevLogLen(k) + 1 =>
            fuzzy_log[calls[k].loglen].CSVTitle = Title(calls[k].row)
  /\ Len(fuzzy_log) = IF calls = << >> THEN 0 ELSE calls[Len(calls)].loglen

\* C16: in each run fuzzy_matches.json is written at most once, only after
\* the row loop has ended and only if the run logged an entry, and holds the
\* entries of that run in row-processing order; a run aborted by a transport
\* error writes no log file and its in-memory entries are dropped.
C16_LogFlush == [][C16_FlushStep]_vars /\ []C16_RowOrder

\* a run ended by a transport error after it logged an entry for a row
\* below the checkpoint, with no fuzzy_matches.json on disk
C16_Witness ==
  /\ pc = "idle" /\ exit = "error"
  /\ ~fuzzy_file.exists
  /\ progress.exists
  /\ \E i \in Finished :
       /\ MismatchLogged(i) \/ FuzzyLogged(i)
       /\ i < progress.last_index

\* C17: in every reachable state, across any sequence of runs, the index in
\* progress.json is the index of a row whose cascade has finished; it is
\* never the index of the row in progress or of a row not yet started.
C17_CheckpointNeverAhead ==
  progress.exists =>
    /\ progress.last_index \in processed
    /\ pc \in {"loop", "title_only", "fuzzy"} => progress.last_index < index

\* the raw title ends in a parenthesized 4-character year
EndsWithYear(raw) ==
  /\ Len(raw) >= 6
  /\ raw[Len(raw)] = ")"
  /\ raw[Len(raw) - 5] = "("

\* the raw title ends with ")" and holds a "(" before it
EndsWithParen(raw) ==
  /\ raw # << >>
  /\ raw[Len(raw)] = ")"
  /\ Contains(raw, "(")

\* the text before the last "(", trimmed, and the 4 characters before the
\* trailing ")"
TitleAndYear(raw) ==
  << Strip(SubSeq(raw, 1, LastIndexOf(raw, "(") - 1)),
     SubSeq(raw, Len(raw) - 4, Len(raw) - 1) >>

\* the exact query of the raw title was issued with this title and year
ParsedAndAsked(raw, parsed) ==
  /\ extract_title_year(raw) = parsed
  /\ Request("t", parsed[1], parsed[2]) \in DOMAIN cache

\* C18: a raw title ending in a parenthesized 4-character year yields the
\* text before the last "(" (trimmed) as title and the 4 characters before
\* the trailing ")" as year; every raw title that does not end with ")"
\* preceded by a "(" yields a null year and the unmodified title, and its
\* exact query is issued without a year filter.
C18_YearParsing ==
  \A k \in 1 .. Len(calls) :
    calls[k].shape = "exact" =>
      /\ EndsWithYear(csv[calls[k].row]) =>
           ParsedAndAsked(csv[calls[k].row], TitleAndYear(csv[calls[k].row]))
      /\ ~EndsWithParen(csv[calls[k].row]) =>
           ParsedAndAsked(csv[calls[k].row], << csv[calls[k].row], NoYear >>)

\* a step that handles the answer of a lookup of row index: the fields of
\* the other rows, the catalog, the log file and the table stay as they
\* are; the fields of the row change only from null, on a found exact or
\* title-only answer that logs nothing and ends the cascade of the row
C19_LookupStep ==
  Len(calls') = Len(calls) + 1 =>
    /\ calls'[Len(calls')].row = index
    /\ \A j \in Rows \ {index} : movies'[j] = movies[j]
    /\ UNCHANGED << csv, fuzzy_file, db >>
    /\ movies'[index] # movies[index] =>
         /\ movies[index] = NoFields
         /\ calls'[Len(calls')].found
         /\ calls'[Len(calls')].shape \in {"exact", "title"}
         /\ fuzzy_log' = fuzzy_log
         /\ index' = index + 1

\* within a run the frame changes on no other step
C19_OtherStep ==
  (Len(calls') # Len(calls) + 1 /\ pc # "idle") => movies' = movies

\* the rows of a run that hold fields are its Resolved rows
C19_FieldsOfResolved ==
  \A i \in Rows : movies[i] # NoFields <=> (i \in Finished /\ Resolved(i))

\* C19: processing row i changes only row i's enrichment fields, the
\* ambiguity log, the budget counter and the checkpoint; the fields of every
\* other row are unchanged, and row i's director, plot and boxOffice are
\* written only when its outcome is Resolved (they stay null for
\* MismatchLogged, FuzzyLogged and Unresolved), at most once in a run.
C19_RowFrame ==
  [][C19_LookupStep /\ C19_OtherStep]_vars /\ []C19_FieldsOfResolved

\* a run with a Resolved row and, after it, a row that logged an entry and
\* kept null fields
C19_Witness ==
  \E i, j \in Finished :
    /\ i < j
    /\ Resolved(i)
    /\ MismatchLogged(j) \/ FuzzyLogged(j)
    /\ movies[j] = NoFields
    /\ progress.exists /\ progress.last_index = j

\* C20: after runs that each ended normally and reached the load stage,
\* every row that a run Resolved has its director, plot and boxOffice in its
\* record of the movie table, also when an earlier run inserted the row
\* with null enrichment.
C20_EnrichmentStored ==
  (pc = "idle" /\ exit = "normal") =>
    \A i \in Rows :
      movies[i] # NoFields => (db[i].present /\ db[i].fields = movies[i])

====
